---- MODULE Spec2Model ----
(***************************************************************************)
(* IniConfigFile: a validated wrapper (IniConfigFile.c / IniConfigFile.h)  *)
(* around an INI store engine (ini_gets, ini_puts, ...).                   *)
(*                                                                         *)
(* A C string is a sequence of one-character strings; a file is a sequence *)
(* of lines, each line a C string without its line terminator.             *)
(* The wrapper functions are translated from src/src/IniConfigFile.c.      *)
(* The engine behind <minIni.h> is not part of the sources: what it does   *)
(* (scan, quoting, lengths returned, rewrite through a temporary file) is  *)
(* modelled from the specification (sections 3, 4.1, 5, 6, 7); the file    *)
(* syntax is the one src/src/IniConfigFile.h documents.                    *)
(***************************************************************************)
EXTENDS Integers, Sequences, FiniteSets, TLC

VARIABLES
    valid,      \* self->valid
    fileName,   \* self->fileName
    fs,         \* the file system: file name -> content
    pc,         \* position of the running call: idle, copy, commit, fault, crashed, aborted
    w,          \* the write in progress (the engine call and its staged content)
    wr,         \* the last completed write call: arguments, result, content before
    rd,         \* the last read call since the last write: arguments and result
    call,       \* name of the most recent API call
    io,         \* whether the most recent API call reached the file system
    nops,       \* number of file operations and releases so far
    readers,    \* the readers of the second specification: a handle and a read pass each
    freed       \* whether IniConfigFile_delete has released the handle

vars == <<valid, fileName, fs, pc, w, wr, rd, call, io, nops, readers, freed>>

----------------------------------------------------------------------------
(* Bounds and input sets *)

MaxOps == 2

NULL == <<"<NULL>">>                 \* the null pointer, as a C string argument
NoFile == << <<"<nofile>">> >>       \* content of a name that does not exist

\* self->valid, an unsigned long written in hexadecimal (only ever compared):
\* zero after the zeroed allocation of IniConfigFile_new, then one of the marks
INICONFIGFILE_FRESH == "0x00000000"
INICONFIGFILE_VALID == "0x26aec137"
INICONFIGFILE_INVALID == "0xb00db00f"
\* what the two words of a released handle read as once the allocator has
\* written its own data over them: neither mark, no name of a file
INICONFIGFILE_RELEASED == "0x55??????"
Dangling == <<"<dangling>">>
\* the bytes 37 c1 ae 26 of the handle's own block once it holds the valid
\* mark, read as a file name
HandleBytes == <<"7", "xC1", "xAE", "&">>
\* char buff[64] of the numeric getters
ScratchSize == 64

Path == <<"f">>
Other == <<"g">>

Sections == {NULL, <<"A">>}
Keys == {<<"k">>}
StrValues == { <<>>, <<"4", "2">>, <<" ", "a">>, <<" ", "a", " ">>, <<"a", "\"", "b">> }
Defaults == { <<>>, <<"d", "d">> }
BufSizes == {0, 2, 8}
EnumSizes == {0, 1, 2}                \* no room, room for the terminator only, room for one character
InitNames == {Path, NULL}            \* the fileName argument of init
Handle == <<"<handle>">>             \* the handle IniConfigFile_new returned
Handles == {Handle, NULL}            \* the self argument of delete
Buffers == {NULL, <<>>}              \* the caller's buffer: none, or one to fill
Longs == {7}
Ints == {-1}
Doubles == {42}
PutDoubles == {42, 12345678}
Indexes == {0, 1, 2, 3}

----------------------------------------------------------------------------
(* C string helpers *)

IsSpace(c) == c = " "

Lower(c) ==
    CASE c = "K" -> "k"
      [] c = "J" -> "j"
      [] c = "A" -> "a"
      [] c = "B" -> "b"
      [] OTHER -> c

LowerStr(s) == [i \in 1..Len(s) |-> Lower(s[i])]

\* strncpy into a buffer of n bytes: at most n-1 characters and the terminator
Truncate(s, n) == IF Len(s) > n - 1 THEN SubSeq(s, 1, n - 1) ELSE s

RECURSIVE skipleading(_)
skipleading(s) ==
    IF s # <<>> /\ IsSpace(s[1]) THEN skipleading(Tail(s)) ELSE s

RECURSIVE striptrailing(_)
striptrailing(s) ==
    IF s # <<>> /\ IsSpace(s[Len(s)]) THEN striptrailing(SubSeq(s, 1, Len(s) - 1)) ELSE s

\* index of the first c in s, 0 when there is none
IndexOf(s, c) ==
    IF \E i \in 1..Len(s) : s[i] = c
    THEN CHOOSE i \in 1..Len(s) : s[i] = c /\ \A j \in 1..(i - 1) : s[j] # c
    ELSE 0

----------------------------------------------------------------------------
(* Line records: section header, key/value pair, comment, blank *)

IsBlank(line) == skipleading(line) = <<>>

IsComment(line) ==
    LET sp == skipleading(line) IN sp # <<>> /\ sp[1] \in {";", "#"}

IsHeader(line) ==
    LET sp == skipleading(line) IN sp # <<>> /\ sp[1] = "[" /\ IndexOf(sp, "]") > 0

\* everything between the brackets, taken literally
SectionName(line) ==
    LET sp == skipleading(line) IN SubSeq(sp, 2, IndexOf(sp, "]") - 1)

\* position of the key/value delimiter: the first '=', else the first ':'
DelimiterAt(sp) ==
    IF IndexOf(sp, "=") > 0 THEN IndexOf(sp, "=") ELSE IndexOf(sp, ":")

IsKeyValue(line) ==
    /\ ~IsBlank(line)
    /\ ~IsComment(line)
    /\ ~IsHeader(line)
    /\ DelimiterAt(skipleading(line)) > 0

KeyName(line) ==
    LET sp == skipleading(line) IN striptrailing(SubSeq(sp, 1, DelimiterAt(sp) - 1))

RawValue(line) ==
    LET sp == skipleading(line) IN SubSeq(sp, DelimiterAt(sp) + 1, Len(sp))

\* keys compare case-insensitively, section names case-sensitively
KeyMatches(a, b) == LowerStr(a) = LowerStr(b)

\* where a trailing comment starts: the first ';' or '#' outside double quotes
RECURSIVE CommentAt(_, _, _)
CommentAt(s, i, instring) ==
    IF i > Len(s) THEN i
    ELSE IF s[i] \in {";", "#"} /\ ~instring THEN i
    ELSE IF s[i] = "\\" /\ i < Len(s) /\ s[i + 1] = "\"" THEN CommentAt(s, i + 2, instring)
    ELSE IF s[i] = "\"" THEN CommentAt(s, i + 1, ~instring)
    ELSE CommentAt(s, i + 1, instring)

\* undo the escaping of embedded double quotes
RECURSIVE Unescape(_)
Unescape(s) ==
    IF s = <<>> THEN <<>>
    ELSE IF s[1] = "\\" /\ Len(s) > 1 /\ s[2] = "\"" THEN <<"\"">> \o Unescape(SubSeq(s, 3, Len(s)))
    ELSE <<s[1]>> \o Unescape(Tail(s))

\* the value of a key/value line: trimmed, without a trailing comment, and
\* with one layer of surrounding double quotes removed
cleanstring(raw) ==
    LET sp == skipleading(raw)
        cut == striptrailing(SubSeq(sp, 1, CommentAt(sp, 1, FALSE) - 1))
    IN  IF Len(cut) >= 2 /\ cut[1] = "\"" /\ cut[Len(cut)] = "\""
        THEN Unescape(SubSeq(cut, 2, Len(cut) - 1))
        ELSE cut

\* the characters with a meaning of their own inside a value: the double
\* quote and the two comment characters
IsSpecial(c) == c \in {"\"", ";", "#"}

\* a value is written between double quotes when it has leading or
\* trailing white space or holds a special character
NeedsQuotes(v) ==
    v # <<>> /\ (\/ IsSpace(v[1])
                 \/ IsSpace(v[Len(v)])
                 \/ \E i \in 1..Len(v) : IsSpecial(v[i]))

RECURSIVE Escape(_)
Escape(s) ==
    IF s = <<>> THEN <<>>
    ELSE IF s[1] = "\"" THEN <<"\\", "\"">> \o Escape(Tail(s))
    ELSE <<s[1]>> \o Escape(Tail(s))

Enquote(v) == IF NeedsQuotes(v) THEN <<"\"">> \o Escape(v) \o <<"\"">> ELSE v

writekey(key, value) == key \o <<"=">> \o Enquote(value)

writesection(section) == <<"[">> \o section \o <<"]">>

----------------------------------------------------------------------------
(* Numeric conversions *)

IsDigit(c) == c \in {"0", "1", "2", "3", "4", "5", "6", "7", "8", "9"}

DigitValue(c) ==
    CASE c = "0" -> 0 [] c = "1" -> 1 [] c = "2" -> 2 [] c = "3" -> 3 [] c = "4" -> 4
      [] c = "5" -> 5 [] c = "6" -> 6 [] c = "7" -> 7 [] c = "8" -> 8 [] c = "9" -> 9

DigitChar(d) == <<"0", "1", "2", "3", "4", "5", "6", "7", "8", "9">>[d + 1]

\* number of consecutive digits of s starting at index i
RECURSIVE DigitRun(_, _)
DigitRun(s, i) ==
    IF i <= Len(s) /\ IsDigit(s[i]) THEN 1 + DigitRun(s, i + 1) ELSE 0

\* value of the n digits of s starting at index i
RECURSIVE DigitsValue(_, _, _)
DigitsValue(s, i, n) ==
    IF n = 0 THEN 0 ELSE DigitsValue(s, i, n - 1) * 10 + DigitValue(s[i + n - 1])

RECURSIVE Pow10(_)
Pow10(n) == IF n = 0 THEN 1 ELSE 10 * Pow10(n - 1)

\* strtol( s, NULL, 10 ): white space, an optional sign, the leading digits
strtol(s) ==
    LET sp == skipleading(s)
        neg == sp # <<>> /\ sp[1] = "-"
        start == IF sp # <<>> /\ sp[1] \in {"-", "+"} THEN 2 ELSE 1
        n == DigitsValue(sp, start, DigitRun(sp, start))
    IN  IF neg THEN 0 - n ELSE n

\* atoi( s ): strtol narrowed to int (the inputs stay inside the int range)
atoi(s) == strtol(s)

\* the decimal digits of n >= 0
RECURSIVE UDigits(_)
UDigits(n) == IF n < 10 THEN <<DigitChar(n)>> ELSE UDigits(n \div 10) \o <<DigitChar(n % 10)>>

\* "%d" and "%ld"
FormatD(n) == IF n < 0 THEN <<"-">> \o UDigits(0 - n) ELSE UDigits(n)

\* a double is kept as the exact decimal m * 10^e, with m not a multiple of 10
RECURSIVE Normalise(_, _)
Normalise(m, e) ==
    IF m = 0 THEN [m |-> 0, e |-> 0]
    ELSE IF m % 10 = 0 THEN Normalise(m \div 10, e + 1)
    ELSE [m |-> m, e |-> e]

Double(n) == Normalise(n, 0)

\* strtod( s, NULL ): sign, digits, optional fraction, optional exponent
strtod(s) ==
    LET sp == skipleading(s)
        neg == sp # <<>> /\ sp[1] = "-"
        i0 == IF sp # <<>> /\ sp[1] \in {"-", "+"} THEN 2 ELSE 1
        ni == DigitRun(sp, i0)
        dot == i0 + ni <= Len(sp) /\ sp[i0 + ni] = "."
        f0 == i0 + ni + 1
        nf == IF dot THEN DigitRun(sp, f0) ELSE 0
        e0 == IF dot THEN f0 + nf ELSE i0 + ni
        hasE == ni + nf > 0 /\ e0 <= Len(sp) /\ sp[e0] \in {"e", "E"}
        eneg == hasE /\ e0 + 1 <= Len(sp) /\ sp[e0 + 1] = "-"
        x0 == IF hasE /\ e0 + 1 <= Len(sp) /\ sp[e0 + 1] \in {"-", "+"} THEN e0 + 2 ELSE e0 + 1
        nx == IF hasE THEN DigitRun(sp, x0) ELSE 0
        ex == IF eneg THEN 0 - DigitsValue(sp, x0, nx) ELSE DigitsValue(sp, x0, nx)
        mant == DigitsValue(sp, i0, ni) * Pow10(nf) + (IF dot THEN DigitsValue(sp, f0, nf) ELSE 0)
    IN  Normalise(IF neg THEN 0 - mant ELSE mant, ex - nf)

\* the digits of n >= 0 left-padded with zeros to at least k digits
PadDigits(n, k) ==
    LET d == UDigits(n) IN [i \in 1..(IF Len(d) < k THEN k - Len(d) ELSE 0) |-> "0"] \o d

\* "%e" of the integer-valued double n: d.dddddde+XX, seven significant
\* digits, rounded half to even
FormatE(n) ==
    LET a == IF n < 0 THEN 0 - n ELSE n
        nd == Len(UDigits(a))
        q == IF nd > 7 THEN a \div Pow10(nd - 7) ELSE a * Pow10(7 - nd)
        r2 == IF nd > 7 THEN 2 * (a % Pow10(nd - 7)) ELSE 0
        half == IF nd > 7 THEN Pow10(nd - 7) ELSE 1
        up == r2 > half \/ (r2 = half /\ q % 2 = 1)
        m0 == IF up THEN q + 1 ELSE q
        carry == m0 = Pow10(7)
        m == IF carry THEN Pow10(6) ELSE m0
        x == IF a = 0 THEN 0 ELSE IF carry THEN nd ELSE nd - 1
        md == PadDigits(m, 7)
    IN  (IF n < 0 THEN <<"-">> ELSE <<>>) \o <<md[1], ".">> \o SubSeq(md, 2, 7)
            \o <<"e", "+">> \o PadDigits(x, 2)

----------------------------------------------------------------------------
(* The store engine, read side *)

Max(S) == CHOOSE x \in S : \A y \in S : y <= x
Min(S) == CHOOSE x \in S : \A y \in S : x <= y

\* the section in effect at line i: the most recent header above it, NULL
\* (the global part of the file) when there is none
SectionAt(lines, i) ==
    LET hs == {j \in 1..(i - 1) : IsHeader(lines[j])}
    IN  IF hs = {} THEN NULL ELSE SectionName(lines[Max(hs)])

\* the scan from line i on, cur being the section in effect there: the
\* first key/value line of (Section, Key), 0 if the file ends before one
RECURSIVE ScanKey(_, _, _, _, _)
ScanKey(lines, i, cur, Section, Key) ==
    IF i > Len(lines) THEN 0
    ELSE IF IsHeader(lines[i]) THEN ScanKey(lines, i + 1, SectionName(lines[i]), Section, Key)
    ELSE IF cur = Section /\ IsKeyValue(lines[i]) /\ KeyMatches(KeyName(lines[i]), Key) THEN i
    ELSE ScanKey(lines, i + 1, cur, Section, Key)

\* variant: the scan runs on to the last line of (Section, Key)
getkeystring_Last(lines, Section, Key) ==
    LET S == {i \in 1..Len(lines) : /\ IsKeyValue(lines[i])
                                    /\ KeyMatches(KeyName(lines[i]), Key)
                                    /\ SectionAt(lines, i) = Section}
    IN  IF S = {} THEN 0 ELSE Max(S)

\* the scan from the top of the file, which starts in the global part
getkeystring(lines, Section, Key) == ScanKey(lines, 1, NULL, Section, Key)

Lines(content) == IF content = NoFile THEN <<>> ELSE content

\* what a buffer-filling call returns for the text it found: the number of
\* characters copied into the supplied buffer; length 0 is what it returns
\* when it found nothing and the buffer holds the default
CharsCopied(found, buffer) == IF found THEN Len(buffer) ELSE 0

\* the value read, or the default, copied into a buffer of BufferSize bytes;
\* the file ending before a line of (Section, Key) is the "use default"
\* path: the default is cut the same way and the length returned is 0;
\* a null key is the key of no line
ini_gets(Section, Key, DefValue, BufferSize, content) ==
    LET at == IF Key = NULL THEN 0 ELSE getkeystring(Lines(content), Section, Key)
        text == IF at > 0 THEN cleanstring(RawValue(Lines(content)[at]))
                ELSE IF DefValue = NULL THEN <<>> ELSE DefValue
        buffer == Truncate(text, BufferSize)
    IN  [ret |-> CharsCopied(at > 0, buffer), buffer |-> buffer]

ini_getl(Section, Key, DefValue, content) ==
    LET r == ini_gets(Section, Key, <<>>, ScratchSize, content)
    IN  IF r.ret = 0 THEN DefValue ELSE strtol(r.buffer)

RECURSIVE SelectIndexes(_, _)
\* the members of the set S of line numbers, in increasing order
SelectIndexes(S, n) ==
    IF n = 0 THEN <<>>
    ELSE SelectIndexes(S, n - 1) \o (IF n \in S THEN <<n>> ELSE <<>>)

\* the section headers, top to bottom
HeaderLines(lines) ==
    SelectIndexes({i \in 1..Len(lines) : IsHeader(lines[i])}, Len(lines))

\* the key/value lines under Section, top to bottom
SectionKeyLines(lines, Section) ==
    SelectIndexes({i \in 1..Len(lines) : IsKeyValue(lines[i]) /\ SectionAt(lines, i) = Section},
                  Len(lines))

ini_getsection(idx, BufferSize, content) ==
    LET hs == HeaderLines(Lines(content))
        buffer == IF idx < Len(hs)
                  THEN Truncate(SectionName(Lines(content)[hs[idx + 1]]), BufferSize)
                  ELSE <<>>
    IN  [ret |-> CharsCopied(TRUE, buffer), buffer |-> buffer]

ini_getkey(Section, idx, BufferSize, content) ==
    LET ks == SectionKeyLines(Lines(content), Section)
        buffer == IF idx < Len(ks)
                  THEN Truncate(KeyName(Lines(content)[ks[idx + 1]]), BufferSize)
                  ELSE <<>>
    IN  [ret |-> CharsCopied(TRUE, buffer), buffer |-> buffer]

----------------------------------------------------------------------------
(* The store engine, write side *)

\* temporary files carry a name that starts with a tilde
ini_tempname(Filename) == <<"~">> \o Filename

RemoveAt(lines, i) == SubSeq(lines, 1, i - 1) \o SubSeq(lines, i + 1, Len(lines))

ReplaceAt(lines, i, line) == [lines EXCEPT ![i] = line]

\* insert line so that it becomes line number i
InsertAt(lines, i, line) == SubSeq(lines, 1, i - 1) \o <<line>> \o SubSeq(lines, i, Len(lines))

SectionExists(lines, Section) ==
    Section = NULL \/ \E i \in 1..Len(lines) : IsHeader(lines[i]) /\ SectionName(lines[i]) = Section

\* variant: the line right behind the header of Section
BlockEnd_Top(lines, Section) ==
    IF Section = NULL THEN 1
    ELSE Min({i \in 1..Len(lines) : IsHeader(lines[i]) /\ SectionName(lines[i]) = Section}) + 1

\* one past the last line of the first block of Section: the next header, or
\* the end of the file
BlockEnd(lines, Section) ==
    LET first == IF Section = NULL THEN 0
                 ELSE Min({i \in 1..Len(lines) : IsHeader(lines[i]) /\ SectionName(lines[i]) = Section})
        next == {i \in (first + 1)..Len(lines) : IsHeader(lines[i])}
    IN  IF next = {} THEN Len(lines) + 1 ELSE Min(next)

\* the key/value lines under Section removed, everything else kept
RECURSIVE EraseSection(_, _, _)
EraseSection(lines, Section, n) ==
    IF n = 0 THEN <<>>
    ELSE EraseSection(lines, Section, n - 1)
            \o (IF IsKeyValue(lines[n]) /\ SectionAt(lines, n) = Section THEN <<>> ELSE <<lines[n]>>)

\* the content the rewrite stages in the temporary file: every unrelated
\* line copied verbatim, the line of (Section, Key) replaced, inserted or
\* left out
Rewrite(lines, Section, Key, Value) ==
    LET at == getkeystring(lines, Section, Key)
    IN  IF Key = NULL THEN EraseSection(lines, Section, Len(lines))
        ELSE IF Value = NULL THEN (IF at > 0 THEN RemoveAt(lines, at) ELSE lines)
        ELSE IF at > 0 THEN ReplaceAt(lines, at, writekey(Key, Value))
        ELSE IF SectionExists(lines, Section)
             THEN InsertAt(lines, BlockEnd(lines, Section), writekey(Key, Value))
        ELSE lines \o <<writesection(Section), writekey(Key, Value)>>

\* the engine calls a write operation ends in
ini_puts(Section, Key, Value, Filename) ==
    [fault |-> FALSE, Section |-> Section, Key |-> Key, Value |-> Value, Filename |-> Filename]

ini_putl(Section, Key, Value, Filename) == ini_puts(Section, Key, FormatD(Value), Filename)

----------------------------------------------------------------------------
(* The wrapper: IniConfigFile.c *)

ANY_REQUIRE_FAILED == [fault |-> TRUE]

FileContent(filesys, name) == IF name \in DOMAIN filesys THEN filesys[name] ELSE NoFile

Answer(r) == [fault |-> FALSE, ret |-> r.ret, buffer |-> r.buffer]

Number(n) == [fault |-> FALSE, ret |-> n]

\* variant: the read looks the key up in the global part whatever the section
IniConfigFile_getString_NoSection(selfValid, selfFileName, section, key, defValue, buffer, bufferSize, filesys) ==
    IF /\ selfValid = INICONFIGFILE_VALID
       /\ buffer # NULL
       /\ bufferSize > 0
       /\ key # NULL
       /\ selfFileName # NULL
    THEN Answer(ini_gets(NULL, key, defValue, bufferSize, FileContent(filesys, selfFileName)))
    ELSE ANY_REQUIRE_FAILED

\* variant: the read passes an empty default, as the numeric reads do
IniConfigFile_getString_NoDefault(selfValid, selfFileName, section, key, defValue, buffer, bufferSize, filesys) ==
    IF /\ selfValid = INICONFIGFILE_VALID
       /\ buffer # NULL
       /\ bufferSize > 0
       /\ key # NULL
       /\ selfFileName # NULL
    THEN Answer(ini_gets(section, key, <<>>, bufferSize, FileContent(filesys, selfFileName)))
    ELSE ANY_REQUIRE_FAILED

\* variant: the capacity is passed on one too high
IniConfigFile_getString_Oversize(selfValid, selfFileName, section, key, defValue, buffer, bufferSize, filesys) ==
    IF /\ selfValid = INICONFIGFILE_VALID
       /\ buffer # NULL
       /\ bufferSize > 0
       /\ key # NULL
       /\ selfFileName # NULL
    THEN Answer(ini_gets(section, key, defValue, bufferSize + 1, FileContent(filesys, selfFileName)))
    ELSE ANY_REQUIRE_FAILED

IniConfigFile_getString(selfValid, selfFileName, section, key, defValue, buffer, bufferSize, filesys) ==
    IF /\ selfValid = INICONFIGFILE_VALID
       /\ buffer # NULL
       /\ bufferSize > 0
       /\ key # NULL
       /\ selfFileName # NULL
    THEN Answer(ini_gets(section, key, defValue, bufferSize, FileContent(filesys, selfFileName)))
    ELSE ANY_REQUIRE_FAILED

\* variant: the read without the check of the handle's validity mark
IniConfigFile_getLong_Unchecked(selfValid, selfFileName, section, key, defValue, filesys) ==
    Number(ini_getl(section, key, defValue, FileContent(filesys, selfFileName)))

IniConfigFile_getLong(selfValid, selfFileName, section, key, defValue, filesys) ==
    IF selfValid = INICONFIGFILE_VALID
    THEN Number(ini_getl(section, key, defValue, FileContent(filesys, selfFileName)))
    ELSE ANY_REQUIRE_FAILED

\* variant: the test of the length is inverted
IniConfigFile_getInt_Inverted(selfValid, selfFileName, section, key, defValue, filesys) ==
    IF selfValid = INICONFIGFILE_VALID
    THEN LET r == ini_gets(section, key, <<>>, ScratchSize, FileContent(filesys, selfFileName))
         IN  Number(IF r.ret = 0 THEN atoi(r.buffer) ELSE defValue)
    ELSE ANY_REQUIRE_FAILED

\* variant: the text is parsed whatever its length
IniConfigFile_getInt_NoDefault(selfValid, selfFileName, section, key, defValue, filesys) ==
    IF selfValid = INICONFIGFILE_VALID
    THEN LET r == ini_gets(section, key, <<>>, ScratchSize, FileContent(filesys, selfFileName))
         IN  Number(atoi(r.buffer))
    ELSE ANY_REQUIRE_FAILED

IniConfigFile_getInt(selfValid, selfFileName, section, key, defValue, filesys) ==
    IF selfValid = INICONFIGFILE_VALID
    THEN LET r == ini_gets(section, key, <<>>, ScratchSize, FileContent(filesys, selfFileName))
         IN  Number(IF r.ret = 0 THEN defValue ELSE atoi(r.buffer))
    ELSE ANY_REQUIRE_FAILED

\* a long as an int: the numbers of the model lie within the range of int,
\* where the conversion keeps the value
ToInt(n) == n

\* the int overload of CppIniConfigFile::get
CppIniConfigFile_get(selfValid, selfFileName, section, key, defValue, filesys) ==
    LET r == IniConfigFile_getLong(selfValid, selfFileName, section, key, defValue, filesys)
    IN  IF r.fault THEN r ELSE Number(ToInt(r.ret))

IniConfigFile_getDouble(selfValid, selfFileName, section, key, defValue, filesys) ==
    IF selfValid = INICONFIGFILE_VALID
    THEN LET r == ini_gets(section, key, <<>>, ScratchSize, FileContent(filesys, selfFileName))
         IN  Number(IF r.ret = 0 THEN defValue ELSE strtod(r.buffer))
    ELSE ANY_REQUIRE_FAILED

\* variant: the index is passed on one too high
IniConfigFile_getSection_Skips(selfValid, selfFileName, idx, buffer, bufferSize, filesys) ==
    IF /\ selfValid = INICONFIGFILE_VALID
       /\ buffer # NULL
       /\ bufferSize > 0
       /\ idx >= 0
    THEN Answer(ini_getsection(idx + 1, bufferSize, FileContent(filesys, selfFileName)))
    ELSE ANY_REQUIRE_FAILED

IniConfigFile_getSection(selfValid, selfFileName, idx, buffer, bufferSize, filesys) ==
    IF /\ selfValid = INICONFIGFILE_VALID
       /\ buffer # NULL
       /\ bufferSize > 0
       /\ idx >= 0
    THEN Answer(ini_getsection(idx, bufferSize, FileContent(filesys, selfFileName)))
    ELSE ANY_REQUIRE_FAILED

IniConfigFile_getKey(selfValid, selfFileName, section, idx, buffer, bufferSize, filesys) ==
    IF /\ selfValid = INICONFIGFILE_VALID
       /\ buffer # NULL
       /\ bufferSize > 0
       /\ idx >= 0
       /\ selfFileName # NULL
    THEN Answer(ini_getkey(section, idx, bufferSize, FileContent(filesys, selfFileName)))
    ELSE ANY_REQUIRE_FAILED

\* variant: the write addresses the global part whatever the section
IniConfigFile_putString_NoSection(selfValid, selfFileName, section, key, value) ==
    IF selfValid = INICONFIGFILE_VALID /\ selfFileName # NULL
    THEN ini_puts(NULL, key, value, selfFileName)
    ELSE ANY_REQUIRE_FAILED

\* variant: the write passes no key, which erases the section's keys
IniConfigFile_putString_NoKey(selfValid, selfFileName, section, key, value) ==
    IF selfValid = INICONFIGFILE_VALID /\ selfFileName # NULL
    THEN ini_puts(section, NULL, value, selfFileName)
    ELSE ANY_REQUIRE_FAILED

IniConfigFile_putString(selfValid, selfFileName, section, key, value) ==
    IF selfValid = INICONFIGFILE_VALID /\ selfFileName # NULL
    THEN ini_puts(section, key, value, selfFileName)
    ELSE ANY_REQUIRE_FAILED

\* variant: the write addresses the global part whatever the section
IniConfigFile_putLong_NoSection(selfValid, selfFileName, section, key, value) ==
    IF selfValid = INICONFIGFILE_VALID /\ selfFileName # NULL
    THEN ini_putl(NULL, key, value, selfFileName)
    ELSE ANY_REQUIRE_FAILED

IniConfigFile_putLong(selfValid, selfFileName, section, key, value) ==
    IF selfValid = INICONFIGFILE_VALID /\ selfFileName # NULL
    THEN ini_putl(section, key, value, selfFileName)
    ELSE ANY_REQUIRE_FAILED

IniConfigFile_putInt(selfValid, selfFileName, section, key, value) ==
    IF selfValid = INICONFIGFILE_VALID /\ selfFileName # NULL
    THEN IniConfigFile_putString(selfValid, selfFileName, section, key, FormatD(value))
    ELSE ANY_REQUIRE_FAILED

IniConfigFile_putDouble(selfValid, selfFileName, section, key, value) ==
    IF selfValid = INICONFIGFILE_VALID /\ selfFileName # NULL
    THEN IniConfigFile_putString(selfValid, selfFileName, section, key, FormatE(value))
    ELSE ANY_REQUIRE_FAILED

\* variant: the removal writes an empty value in place of the null value
IniConfigFile_removeKey_Empty(selfValid, selfFileName, section, key) ==
    IniConfigFile_putString(selfValid, selfFileName, section, key, <<>>)

\* variant: the removal passes no key, which erases the section's keys
IniConfigFile_removeKey_WholeSection(selfValid, selfFileName, section, key) ==
    IniConfigFile_putString(selfValid, selfFileName, section, NULL, NULL)

IniConfigFile_removeKey(selfValid, selfFileName, section, key) ==
    IniConfigFile_putString(selfValid, selfFileName, section, key, NULL)

\* variant: the handle is marked valid whether the name was copied or not
IniConfigFile_init_MarksFailed(fileNameArg, fileNameCopy) ==
    IF fileNameArg = NULL THEN ANY_REQUIRE_FAILED
    ELSE [fault |-> FALSE, ret |-> fileNameCopy # NULL, valid |-> INICONFIGFILE_VALID,
          fileName |-> fileNameCopy]

\* fileNameCopy is what Any_strdup(fileNameArg) returns
IniConfigFile_init(fileNameArg, fileNameCopy) ==
    IF fileNameArg = NULL THEN ANY_REQUIRE_FAILED
    ELSE IF fileNameCopy = NULL
    THEN [fault |-> FALSE, ret |-> FALSE, valid |-> INICONFIGFILE_INVALID, fileName |-> NULL]
    ELSE [fault |-> FALSE, ret |-> TRUE, valid |-> INICONFIGFILE_VALID, fileName |-> fileNameCopy]

\* ANY_REQUIRE( self ) refuses a null handle.  Otherwise ANY_FREE( self )
\* releases the block, and after holds what the handle's two words may read
\* as from then on: each of them as it was or written over by the allocator,
\* which may write over the first word only, over both, or over neither.
\* When the handle had been released before (released), its block may have
\* been handed out again in between, to Any_strdup for one, and the words
\* may read as any mark this program or the allocator has left there.
IniConfigFile_delete(self, selfValid, selfFileName, released) ==
    IF self = NULL THEN ANY_REQUIRE_FAILED
    ELSE [fault |-> FALSE,
          after |-> { [valid |-> v, fileName |-> f] :
                          v \in {selfValid, INICONFIGFILE_RELEASED},
                          f \in {selfFileName, Dangling} }
                    \cup (IF released
                          THEN { [valid |-> v, fileName |-> f] :
                                     v \in {INICONFIGFILE_FRESH, INICONFIGFILE_VALID,
                                            INICONFIGFILE_INVALID, INICONFIGFILE_RELEASED},
                                     f \in {selfFileName, NULL, Dangling} }
                          ELSE {})]

IniConfigFile_clear(selfValid, selfFileName) ==
    IF selfValid = INICONFIGFILE_VALID /\ selfFileName # NULL
    THEN [fault |-> FALSE, valid |-> INICONFIGFILE_INVALID, fileName |-> NULL]
    ELSE ANY_REQUIRE_FAILED

----------------------------------------------------------------------------
(* Files the store can start from *)

hA == <<"[", "A", "]">>
hB == <<"[", "B", "C", "]">>
k42 == <<"k", "=", "4", "2">>
kUpper == <<"K", " ", ":", " ", "7">>
k7c == <<"k", "=", "7", " ", ";", "c">>
k9 == <<"k", "=", "9">>
jQuoted == <<"j", "=", "\"", " ", "a", "\"">>
jPlain == <<"j", "=", "a">>
jEmpty == <<"j", "=">>
comment == <<"#", " ", "c">>
blank == <<>>
hNoName == <<"[", "]">>              \* a header that names nothing
kNoName == <<"=", "v">>              \* a value without a key name

InitialFiles ==
    { NoFile,
      <<>>,
      <<hA, k42>>,
      <<comment, hA, k42, blank, hB, jQuoted>>,
      <<kUpper, hA, k42, k7c, hA, k9>>,
      <<hA, jPlain, hB, k42, hA, k7c>>,
      <<kNoName, jPlain, hNoName, jEmpty, hB, comment>> }

Names == {Path, ini_tempname(Path), Other, HandleBytes, ini_tempname(HandleBytes)}

OtherContent == <<comment>>

NoCall == [op |-> "none"]

NoReaders == <<>>

----------------------------------------------------------------------------
(* The state machine *)

Init ==
    /\ valid = INICONFIGFILE_FRESH
    /\ fileName = NULL
    /\ fs \in {[n \in Names |-> IF n = Path THEN f ELSE IF n = Other THEN OtherContent ELSE NoFile] :
                 f \in InitialFiles}
    /\ pc = "idle"
    /\ w = NoCall
    /\ wr = NoCall
    /\ rd = NoCall
    /\ call = "none"
    /\ io = FALSE
    /\ nops = 0
    /\ readers = NoReaders
    /\ freed = FALSE

\* a failed ANY_REQUIRE ends the process before anything else happens
Fault(name) ==
    /\ pc' = "fault"
    /\ call' = name
    /\ io' = FALSE
    /\ UNCHANGED <<valid, fileName, fs, w, wr, rd, nops, readers, freed>>

\* Any_strdup either copies the name or returns NULL; on a released handle
\* it may also hand out the handle's own block, which then reads as the
\* bytes of the mark written into it, or the process ends inside it, the
\* handle already marked INICONFIGFILE_INVALID and init never returning.
\* Like every call, init is made while the bound on the operations allows
\* a further one; it does not count as one.
InitHandle ==
    \E name \in InitNames : \E copy \in {name, NULL} \cup (IF freed THEN {HandleBytes} ELSE {}) :
        /\ pc = "idle"
        /\ nops < MaxOps
        /\ LET r == IniConfigFile_init(name, copy)
           IN  IF r.fault THEN Fault("init")
               ELSE /\ \/ /\ valid' = r.valid
                          /\ fileName' = r.fileName
                          /\ rd' = [op |-> "init", arg |-> name, ret |-> r.ret, from |-> valid]
                          /\ pc' = pc
                       \/ /\ freed
                          /\ valid' = INICONFIGFILE_INVALID
                          /\ fileName' = fileName
                          /\ rd' = [op |-> "init", arg |-> name, ret |-> FALSE, from |-> valid]
                          /\ pc' = "aborted"
                    /\ wr' = NoCall
                    /\ call' = "init"
                    /\ io' = FALSE
                    /\ UNCHANGED <<fs, w, nops, readers, freed>>

\* on a released handle the block that clear frees may be the handle's own:
\* the mark may then read as the allocator's data, or the process ends.
\* clear is made while the bound on the operations allows a further one.
Clear ==
    /\ pc = "idle"
    /\ nops < MaxOps
    /\ LET r == IniConfigFile_clear(valid, fileName)
       IN  IF r.fault THEN Fault("clear")
           ELSE /\ valid' \in {r.valid} \cup (IF freed THEN {INICONFIGFILE_RELEASED} ELSE {})
                /\ fileName' = r.fileName
                /\ rd' = [op |-> "clear"]
                /\ wr' = NoCall
                /\ call' = "clear"
                /\ io' = FALSE
                /\ pc' \in {"idle"} \cup (IF freed THEN {"aborted"} ELSE {})
                /\ UNCHANGED <<fs, w, nops, readers, freed>>

\* IniConfigFile_delete releases the handle; what a later call finds in it
\* is not determined.  Releasing a handle a second time either goes
\* unnoticed, whatever it leaves in the block, or ends the process in the
\* allocator.
Delete ==
    \E self \in Handles :
        /\ pc = "idle"
        /\ nops < MaxOps
        /\ LET r == IniConfigFile_delete(self, valid, fileName, freed)
           IN  IF r.fault THEN Fault("delete")
               ELSE /\ \E after \in r.after :
                           /\ valid' = after.valid
                           /\ fileName' = after.fileName
                    /\ pc' \in IF freed THEN {"idle", "aborted"} ELSE {"idle"}
                    /\ freed' = TRUE
                    /\ rd' = [op |-> "delete"]
                    /\ wr' = NoCall
                    /\ call' = "delete"
                    /\ io' = FALSE
                    /\ nops' = nops + 1
                    /\ UNCHANGED <<fs, w, readers>>

\* a read call, made while the bound on the operations allows one, faults
\* or returns r to its caller
Read(name, r, args) ==
    /\ nops < MaxOps
    /\ IF r.fault THEN Fault(name)
       ELSE /\ rd' = [op |-> name] @@ args @@ [x \in DOMAIN r \ {"fault"} |-> r[x]]
            /\ call' = name
            /\ io' = TRUE
            /\ nops' = nops + 1
            /\ UNCHANGED <<valid, fileName, fs, pc, w, wr, readers, freed>>

GetString ==
    \E section \in Sections, key \in Keys \cup {NULL}, defValue \in Defaults,
       buffer \in Buffers, bufferSize \in BufSizes :
        /\ pc = "idle"
        /\ Read("getString",
                IniConfigFile_getString(valid, fileName, section, key, defValue, buffer, bufferSize, fs),
                [section |-> section, key |-> key, defValue |-> defValue,
                 arg |-> buffer, bufferSize |-> bufferSize])

GetLong ==
    \E section \in Sections, key \in Keys \cup {NULL}, defValue \in Longs :
        /\ pc = "idle"
        /\ Read("getLong",
                IniConfigFile_getLong(valid, fileName, section, key, defValue, fs),
                [section |-> section, key |-> key, defValue |-> defValue])

GetInt ==
    \E section \in Sections, key \in Keys \cup {NULL}, defValue \in Ints :
        /\ pc = "idle"
        /\ Read("getInt",
                IniConfigFile_getInt(valid, fileName, section, key, defValue, fs),
                [section |-> section, key |-> key, defValue |-> defValue])

\* the C++ binding's int read: section and key are std::string, never null
CppGet ==
    \E section \in Sections \ {NULL}, key \in Keys, defValue \in Ints :
        /\ pc = "idle"
        /\ Read("get",
                CppIniConfigFile_get(valid, fileName, section, key, defValue, fs),
                [section |-> section, key |-> key, defValue |-> defValue])

GetDouble ==
    \E section \in Sections, key \in Keys \cup {NULL}, defValue \in Doubles :
        /\ pc = "idle"
        /\ Read("getDouble",
                IniConfigFile_getDouble(valid, fileName, section, key, Double(defValue), fs),
                [section |-> section, key |-> key, defValue |-> Double(defValue)])

GetSection ==
    \E idx \in Indexes, buffer \in Buffers, bufferSize \in EnumSizes :
        /\ pc = "idle"
        /\ Read("getSection",
                IniConfigFile_getSection(valid, fileName, idx, buffer, bufferSize, fs),
                [idx |-> idx, arg |-> buffer, bufferSize |-> bufferSize])

GetKey ==
    \E section \in Sections, idx \in Indexes, buffer \in Buffers, bufferSize \in EnumSizes :
        /\ pc = "idle"
        /\ Read("getKey",
                IniConfigFile_getKey(valid, fileName, section, idx, buffer, bufferSize, fs),
                [section |-> section, idx |-> idx, arg |-> buffer, bufferSize |-> bufferSize])

\* what a completed write call leaves for its caller: ret is the value
\* returned (void calls return none), status the engine's own result
Completed(c, status, failed) ==
    LET base == [op |-> c.op, section |-> c.section, key |-> c.key,
                 value |-> c.call.Value, arg |-> c.arg, void |-> c.void,
                 status |-> status, failed |-> failed, pre |-> c.pre,
                 twice |-> c.twice, pre0 |-> c.pre0]
    IN  IF c.void THEN base ELSE base @@ [ret |-> status]

Finish(c, status, failed) ==
    /\ pc' = "idle"
    /\ wr' = Completed(c, status, failed)
    /\ w' = NoCall

\* variant: the rewrite truncates the original as it opens the temporary file
OpenTemp_InPlace(filesys, Filename) ==
    [filesys EXCEPT ![Filename] = <<>>, ![ini_tempname(Filename)] = <<>>]

\* the temporary file is opened for writing
OpenTemp(filesys, Filename) == [filesys EXCEPT ![ini_tempname(Filename)] = <<>>]

\* the copy loop has written every line of the new content
CopyAll(filesys, Filename, target) == [filesys EXCEPT ![ini_tempname(Filename)] = target]

\* variant: a failed rewrite leaves what it staged in place of the original
Discard_Publishes(filesys, Filename) ==
    [filesys EXCEPT ![Filename] = filesys[ini_tempname(Filename)],
                    ![ini_tempname(Filename)] = NoFile]

\* the temporary file is discarded
Discard(filesys, Filename) == [filesys EXCEPT ![ini_tempname(Filename)] = NoFile]

\* rename-over-original: the temporary file replaces the original
Publish(filesys, Filename) ==
    [filesys EXCEPT ![Filename] = filesys[ini_tempname(Filename)],
                    ![ini_tempname(Filename)] = NoFile]

\* a write call name(section, key, arg): the wrapper's checks, which end
\* in the engine call c, then the engine starts the rewrite
Begin(name, section, key, arg, c, void) ==
    IF c.fault THEN Fault(name)
    ELSE LET pre == FileContent(fs, c.Filename)
             same == /\ wr.op = name
                     /\ wr.section = section
                     /\ wr.key = key
                     /\ wr.arg = arg
             ctx == [op |-> name, section |-> section, key |-> key, call |-> c,
                     arg |-> arg, void |-> void, pre |-> pre,
                     target |-> Rewrite(Lines(pre), c.Section, c.Key, c.Value),
                     twice |-> same, pre0 |-> IF same THEN wr.pre0 ELSE pre]
             nothing == pre = NoFile /\ (c.Key = NULL \/ c.Value = NULL)
         IN  /\ nops < MaxOps
             /\ call' = name
             /\ io' = TRUE
             /\ nops' = nops + 1
             /\ rd' = NoCall
             /\ UNCHANGED <<valid, fileName, readers, freed>>
             /\ \/ /\ nothing
                   /\ Finish(ctx, 1, FALSE)
                   /\ fs' = fs
                \/ /\ ~nothing
                   /\ fs' = OpenTemp(fs, c.Filename)
                   /\ pc' = "copy"
                   /\ w' = ctx
                   /\ wr' = NoCall
                \/ /\ ~nothing
                   /\ Finish(ctx, 0, TRUE)
                   /\ fs' = fs

PutString ==
    \E section \in Sections, key \in Keys \cup {NULL}, value \in StrValues \cup {NULL} :
        /\ pc = "idle"
        /\ key = NULL => value = NULL
        /\ Begin("putString", section, key, value,
                 IniConfigFile_putString(valid, fileName, section, key, value), FALSE)

PutLong ==
    \E section \in Sections, key \in Keys \cup {NULL}, value \in Longs :
        /\ pc = "idle"
        /\ Begin("putLong", section, key, value,
                 IniConfigFile_putLong(valid, fileName, section, key, value), FALSE)

PutInt ==
    \E section \in Sections, key \in Keys, value \in Ints :
        /\ pc = "idle"
        /\ Begin("putInt", section, key, value,
                 IniConfigFile_putInt(valid, fileName, section, key, value), FALSE)

PutDouble ==
    \E section \in Sections, key \in Keys, value \in PutDoubles :
        /\ pc = "idle"
        /\ Begin("putDouble", section, key, Double(value),
                 IniConfigFile_putDouble(valid, fileName, section, key, value), FALSE)

RemoveKey ==
    \E section \in Sections, key \in Keys \cup {NULL} :
        /\ pc = "idle"
        /\ Begin("removeKey", section, key, NULL,
                 IniConfigFile_removeKey(valid, fileName, section, key), TRUE)

\* the copy loop: it completes, or a write fails and the temporary file goes
PutCopy ==
    /\ pc = "copy"
    /\ UNCHANGED <<valid, fileName, rd, call, io, nops, readers, freed>>
    /\ \/ /\ fs' = CopyAll(fs, w.call.Filename, w.target)
          /\ pc' = "commit"
          /\ UNCHANGED <<w, wr>>
       \/ /\ fs' = Discard(fs, w.call.Filename)
          /\ Finish(w, 0, TRUE)

\* the commit: the rename succeeds, or it fails and the temporary file goes
PutCommit ==
    /\ pc = "commit"
    /\ UNCHANGED <<valid, fileName, rd, call, io, nops, readers, freed>>
    /\ \/ /\ fs' = Publish(fs, w.call.Filename)
          /\ Finish(w, 1, FALSE)
       \/ /\ fs' = Discard(fs, w.call.Filename)
          /\ Finish(w, 0, TRUE)

\* the process is interrupted while a write is under way: nothing more
\* happens, the files stay as they are
Interrupt ==
    /\ pc \in {"copy", "commit"}
    /\ pc' = "crashed"
    /\ UNCHANGED <<valid, fileName, fs, w, wr, rd, call, io, nops, readers, freed>>

Next ==
    \/ InitHandle
    \/ Clear
    \/ Delete
    \/ GetString
    \/ GetLong
    \/ GetInt
    \/ CppGet
    \/ GetDouble
    \/ GetSection
    \/ GetKey
    \/ PutString
    \/ PutLong
    \/ PutInt
    \/ PutDouble
    \/ RemoveKey
    \/ PutCopy
    \/ PutCommit
    \/ Interrupt

Spec == Init /\ [][Next]_vars

----------------------------------------------------------------------------
(* Readers with a handle each, bound to one path, and no writer *)

NumReaders == 2
Readers == 1..NumReaders

\* the read calls the readers issue, one of each operation
ReadCalls ==
    << [op |-> "getString", section |-> <<"A">>, key |-> <<"k">>,
       defValue |-> <<"d", "d">>, bufferSize |-> 8],
      [op |-> "getInt", section |-> <<"A">>, key |-> <<"k">>, defValue |-> 0 - 1],
      [op |-> "getLong", section |-> NULL, key |-> <<"k">>, defValue |-> 0 - 1],
      [op |-> "getDouble", section |-> <<"A">>, key |-> <<"k">>, defValue |-> Double(42)],
      [op |-> "getSection", idx |-> 1, bufferSize |-> 2],
      [op |-> "getKey", section |-> <<"A">>, idx |-> 0, bufferSize |-> 2] >>

\* the read call c through a handle, over the files filesys
ReadResult(c, selfValid, selfFileName, filesys) ==
    CASE c.op = "getString" ->
             IniConfigFile_getString(selfValid, selfFileName, c.section, c.key,
                                     c.defValue, <<>>, c.bufferSize, filesys)
      [] c.op = "getInt" ->
             IniConfigFile_getInt(selfValid, selfFileName, c.section, c.key, c.defValue, filesys)
      [] c.op = "getLong" ->
             IniConfigFile_getLong(selfValid, selfFileName, c.section, c.key, c.defValue, filesys)
      [] c.op = "getDouble" ->
             IniConfigFile_getDouble(selfValid, selfFileName, c.section, c.key, c.defValue, filesys)
      [] c.op = "getSection" ->
             IniConfigFile_getSection(selfValid, selfFileName, c.idx, <<>>, c.bufferSize, filesys)
      [] c.op = "getKey" ->
             IniConfigFile_getKey(selfValid, selfFileName, c.section, c.idx, <<>>,
                                  c.bufferSize, filesys)

\* opening a file for reading leaves every file as it is
OpenRead(filesys, name) == filesys

\* variant: the readers share one position in the file
StreamPos_Shared(i) == Max({readers[j].pos : j \in Readers})

\* each read call opens a stream of its own, with its own position
StreamPos(i) == readers[i].pos

\* a handle after a successful init, no call running
IdleReader ==
    LET r == IniConfigFile_init(Path, Path)
    IN  [valid |-> r.valid, fileName |-> r.fileName, pc |-> "idle", c |-> 0,
         pos |-> 0, seen |-> <<>>, ret |-> NoCall, overlapped |-> FALSE]

InitReaders ==
    /\ valid = INICONFIGFILE_FRESH
    /\ fileName = NULL
    /\ fs \in {[n \in Names |-> IF n = Path THEN f ELSE IF n = Other THEN OtherContent ELSE NoFile] :
                 f \in InitialFiles}
    /\ pc = "idle"
    /\ w = NoCall
    /\ wr = NoCall
    /\ rd = NoCall
    /\ call = "none"
    /\ io = FALSE
    /\ nops = 0
    /\ readers = [i \in Readers |-> IdleReader]
    /\ freed = FALSE

\* reader i calls a read operation: the checks of the wrapper pass and the
\* engine opens the file
RCall(i) ==
    \E c \in DOMAIN ReadCalls :
        /\ readers[i].pc \in {"idle", "done"}
        /\ ~ReadResult(ReadCalls[c], readers[i].valid, readers[i].fileName, fs).fault
        /\ fs' = OpenRead(fs, readers[i].fileName)
        /\ readers' = [readers EXCEPT ![i] =
               [@ EXCEPT !.pc = "open", !.c = c, !.pos = 0,
                         !.seen = IF FileContent(fs, readers[i].fileName) = NoFile
                                  THEN NoFile ELSE <<>>,
                         !.ret = NoCall, !.overlapped = FALSE]]
        /\ UNCHANGED <<valid, fileName, pc, w, wr, rd, call, io, nops, freed>>

\* reader i reads the next line of the file from its stream
RLine(i) ==
    /\ readers[i].pc = "open"
    /\ readers[i].seen # NoFile
    /\ StreamPos(i) < Len(Lines(FileContent(fs, readers[i].fileName)))
    /\ readers' = [readers EXCEPT ![i] =
           [@ EXCEPT !.seen = Append(@, fs[readers[i].fileName][StreamPos(i) + 1]),
                     !.pos = StreamPos(i) + 1]]
    /\ UNCHANGED <<valid, fileName, fs, pc, w, wr, rd, call, io, nops, freed>>

\* reader i has reached the end of the file (or found none): the engine
\* closes the stream and the call returns what the lines read give
RReturn(i) ==
    /\ readers[i].pc = "open"
    /\ \/ readers[i].seen = NoFile
       \/ StreamPos(i) >= Len(Lines(FileContent(fs, readers[i].fileName)))
    /\ readers' = [readers EXCEPT ![i] =
           [@ EXCEPT !.pc = "done",
                     !.ret = ReadResult(ReadCalls[readers[i].c], readers[i].valid, readers[i].fileName,
                                        (readers[i].fileName :> readers[i].seen)),
                     !.overlapped = \E j \in Readers \ {i} :
                                        readers[j].pc = "open" /\ readers[j].pos > 0]]
    /\ UNCHANGED <<valid, fileName, fs, pc, w, wr, rd, call, io, nops, freed>>

NextReaders ==
    \E i \in Readers : RCall(i) \/ RLine(i) \/ RReturn(i)

SpecReaders == InitReaders /\ [][NextReaders]_vars

----------------------------------------------------------------------------
(* Properties: what they speak of *)

\* The properties speak of a handle that has not been released (~freed):
\* what a call finds in a handle after IniConfigFile_delete is not determined.

\* the lines of a content that hold Key under Section
KeyLinesOf(lines, Section, Key) ==
    {i \in 1..Len(lines) : /\ IsKeyValue(lines[i])
                           /\ KeyMatches(KeyName(lines[i]), Key)
                           /\ SectionAt(lines, i) = Section}

\* the headers of a content that name Section
HeadersOf(lines, Section) ==
    {i \in 1..Len(lines) : IsHeader(lines[i]) /\ SectionName(lines[i]) = Section}

\* the last read addresses the key of the last completed write
ReadsWritten == rd.section = wr.section /\ rd.key = wr.key

\* the numerals the numeric reads are checked on
NumeralRange == (0 - 9)..99

----------------------------------------------------------------------------
(* C1 *)

\* a getString follows a successful putString of a value to the same
\* (section, key), into a buffer the value fits in
C1Case ==
    /\ ~freed
    /\ rd.op = "getString"
    /\ wr.op = "putString"
    /\ wr.status = 1
    /\ wr.key # NULL
    /\ wr.arg # NULL
    /\ ReadsWritten
    /\ Len(wr.arg) < rd.bufferSize

\* C1: after a successful putString(s, k, v), getString(s, k) returns
\* exactly v, for any string value v (empty, padded with white space, holding
\* a double quote, numeral-like) and whatever the default.
C1_RoundTrip == C1Case => rd.buffer = wr.arg

\* a value with leading white space only, written over an existing file, is
\* on the line between double quotes and is read back as it is although the
\* read names another default
C1_Witness ==
    /\ C1Case
    /\ wr.arg = <<" ", "a">>
    /\ wr.pre = <<hA, k42>>
    /\ wr.section = <<"A">>
    /\ fs[Path] = <<hA, <<"k", "=", "\"", " ", "a", "\"">>>>
    /\ rd.defValue = <<"d", "d">>
    /\ rd.buffer = <<" ", "a">>

----------------------------------------------------------------------------
(* C2 *)

\* C2: a put, or a delete, that fails for an I/O reason returns 0 (where it
\* returns anything: removeKey is void) and leaves the file at the path with
\* the content it had before the call.
C2_FailureAtomicity ==
    (~freed /\ wr.op # "none" /\ wr.failed) =>
        /\ fs[Path] = wr.pre
        /\ ~wr.void => wr.ret = 0

\* a putLong that would have changed an existing file has failed
C2_Witness ==
    /\ ~freed
    /\ wr.op = "putLong"
    /\ wr.failed
    /\ wr.ret = 0
    /\ wr.pre = <<hA, k42>>
    /\ fs[Path] = <<hA, k42>>

----------------------------------------------------------------------------
(* C3 *)

\* C3: while a write is under way or was interrupted, the file at the path
\* is the whole content from before the call; the only step that changes it
\* is the commit, which puts the whole new content in its place and ends the
\* call with success; any other file a write leaves behind carries a name
\* starting with a tilde, and exists only while a write is under way or was
\* interrupted.
C3_SingleCommitPoint ==
    /\ []((~freed /\ pc \in {"copy", "commit", "crashed"}) => fs[Path] = w.pre)
    /\ [](~freed =>
            \A n \in Names \ {Path, Other} :
                fs[n] # NoFile => (n[1] = "~" /\ pc \in {"copy", "commit", "crashed"}))
    /\ [](fs[Other] = OtherContent)
    /\ [][(~freed' /\ fs'[Path] # fs[Path]) =>
            /\ pc = "commit"
            /\ pc' = "idle"
            /\ fs'[Path] = w.target
            /\ wr'.status = 1]_vars

\* a write was interrupted with the new content staged in full: the
\* original is still the old content, the debris is the tilde file
C3_Witness ==
    /\ ~freed
    /\ pc = "crashed"
    /\ w.pre = <<hA, k42>>
    /\ fs[Path] = <<hA, k42>>
    /\ fs[ini_tempname(Path)] = w.target
    /\ w.target # w.pre

----------------------------------------------------------------------------
(* C4 *)

\* C4: after a successful put or removeKey that names a key, the file is the
\* file from before with at most one line taken out, which held the key
\* under the section, and at most the new line of the key put in (behind a
\* new header of the section when the file had none); every other line is
\* where it was, byte for byte.
C4_Frame ==
    (~freed /\ wr.op # "none" /\ wr.status = 1 /\ wr.key # NULL) =>
        LET pre == Lines(wr.pre)
            post == Lines(fs[Path])
        IN  \E i \in 0..Len(pre), del \in {0, 1}, ins \in {0, 1, 2} :
                /\ i + del <= Len(pre)
                /\ Len(post) = Len(pre) - del + ins
                /\ SubSeq(post, 1, i) = SubSeq(pre, 1, i)
                /\ SubSeq(post, i + ins + 1, Len(post)) = SubSeq(pre, i + del + 1, Len(pre))
                /\ del = 1 => (i + 1) \in KeyLinesOf(pre, wr.section, wr.key)
                /\ ins >= 1 => (i + ins) \in KeyLinesOf(post, wr.section, wr.key)
                /\ ins = 2 => /\ post[i + 1] = writesection(wr.section)
                              /\ HeadersOf(pre, wr.section) = {}
                /\ (ins = 0) <=> (wr.value = NULL)

\* a key is replaced in a file with a comment, a blank line and another
\* section around it
C4_Witness ==
    /\ ~freed
    /\ wr.op = "putString"
    /\ wr.status = 1
    /\ wr.section = <<"A">>
    /\ wr.pre = <<comment, hA, k42, blank, hB, jQuoted>>
    /\ fs[Path] = <<comment, hA, <<"k", "=">>, blank, hB, jQuoted>>

----------------------------------------------------------------------------
(* C5 *)

\* a getString has looked for a key the file does not hold under the
\* section (the file may be missing altogether)
C5Case ==
    /\ ~freed
    /\ rd.op = "getString"
    /\ KeyLinesOf(Lines(fs[Path]), rd.section, rd.key) = {}

\* C5: when the key is absent, getString fills the buffer with the caller's
\* default (the whole of one that fits, the first capacity - 1 characters of
\* a longer one) and returns length 0.
C5_DefaultFallback ==
    C5Case =>
        /\ Len(rd.defValue) < rd.bufferSize => rd.buffer = rd.defValue
        /\ rd.buffer = SubSeq(rd.defValue, 1, Min({Len(rd.defValue), rd.bufferSize - 1}))
        /\ rd.ret = 0

\* the file is missing, the default "dd" fills the buffer and the length
\* returned is 0
C5_Witness ==
    /\ C5Case
    /\ fs[Path] = NoFile
    /\ rd.defValue = <<"d", "d">>
    /\ rd.bufferSize = 8
    /\ rd.buffer = <<"d", "d">>
    /\ rd.ret = 0

----------------------------------------------------------------------------
(* C6 *)

\* C6: on a handle that is not initialised (never initialised, initialisation
\* failed, or cleared, released or not) the only calls that do not fault are
\* init and delete; any other call, a second clear included, faults before
\* any file is accessed.
C6_LifecycleGuard ==
    [][(pc = "idle" /\ valid # INICONFIGFILE_VALID) =>
          \/ call' = "init"
          \/ call' = "delete"
          \/ /\ pc' = "fault"
             /\ io' = FALSE
             /\ fs' = fs
             /\ valid' = valid]_vars

\* a second clear has faulted
C6_Witness ==
    /\ ~freed
    /\ pc = "fault"
    /\ call = "clear"
    /\ rd.op = "clear"
    /\ valid = INICONFIGFILE_INVALID
    /\ io = FALSE

----------------------------------------------------------------------------
(* C7 *)

\* C7: getInt, getLong and getDouble return the caller's default exactly when
\* the string read of the key has length zero (key absent, or value empty);
\* otherwise they return what the lenient parse makes of the text: the
\* number for a base-10 numeral (42 for k=42), 0 for a text that does not
\* start with a numeral.
C7_NumericRead ==
    (~freed /\ rd.op \in {"getInt", "getLong", "getDouble"}) =>
        LET lines == Lines(fs[Path])
            at == KeyLinesOf(lines, rd.section, rd.key)
            text == IF at = {} THEN <<>> ELSE cleanstring(RawValue(lines[Min(at)]))
            body == skipleading(text)
            num(n) == IF rd.op = "getDouble" THEN Double(n) ELSE n
        IN  /\ text = <<>> => rd.ret = rd.defValue
            /\ \A n \in NumeralRange : text = FormatD(n) => rd.ret = num(n)
            /\ (body # <<>> /\ ~IsDigit(body[1]) /\ body[1] \notin {"-", "+", "."}) =>
                   rd.ret = num(0)

\* the repository's read test: 42 for k=42 under [A], with default -1
C7_Witness ==
    /\ ~freed
    /\ rd.op = "getInt"
    /\ rd.section = <<"A">>
    /\ rd.defValue = 0 - 1
    /\ fs[Path] = <<hA, k42>>
    /\ rd.ret = 42

----------------------------------------------------------------------------
(* C8 *)

\* a putLong or putString of a value has succeeded on a key the file held
C8Case ==
    /\ ~freed
    /\ wr.op \in {"putLong", "putString"}
    /\ wr.status = 1
    /\ wr.key # NULL
    /\ wr.value # NULL
    /\ KeyLinesOf(Lines(wr.pre), wr.section, wr.key) # {}

\* the write has added no line, no header of the section, no line of the key
C8InPlace ==
    LET pre == Lines(wr.pre)
        post == Lines(fs[Path])
    IN  /\ Len(post) = Len(pre)
        /\ Cardinality(HeadersOf(post, wr.section)) = Cardinality(HeadersOf(pre, wr.section))
        /\ Cardinality(KeyLinesOf(post, wr.section, wr.key))
               = Cardinality(KeyLinesOf(pre, wr.section, wr.key))

\* C8: putLong/putString on an existing (section, key) replaces the value
\* in place, adding no second header and no second key line, and a
\* subsequent read returns the new value: getLong the number written,
\* getString the string written, whatever the string.
C8_ReplaceInPlace ==
    C8Case =>
        /\ C8InPlace
        /\ (wr.op = "putLong" /\ rd.op = "getLong" /\ ReadsWritten) => rd.ret = wr.arg
        /\ (wr.op = "putString" /\ rd.op = "getString" /\ ReadsWritten
              /\ Len(wr.arg) < rd.bufferSize) => rd.buffer = wr.arg

\* 42 is overwritten by 7: still one header, one line of the key, 7 read
C8_Witness ==
    /\ C8Case
    /\ wr.op = "putLong"
    /\ wr.pre = <<hA, k42>>
    /\ fs[Path] = <<hA, <<"k", "=", "7">>>>
    /\ rd.op = "getLong"
    /\ ReadsWritten
    /\ rd.ret = 7

----------------------------------------------------------------------------
(* C9 *)

\* a removeKey, or a putString of the null value, has succeeded on a key
C9Case ==
    /\ ~freed
    /\ wr.op \in {"removeKey", "putString"}
    /\ wr.arg = NULL
    /\ wr.key # NULL
    /\ wr.status = 1

\* both calls have one effect on the file: the first line that held the key
\* under the section is gone, nothing else has changed
C9SameEffect ==
    LET pre == Lines(wr.pre)
        at == KeyLinesOf(pre, wr.section, wr.key)
    IN  IF at = {} THEN fs[Path] = wr.pre
        ELSE fs[Path] = SubSeq(pre, 1, Min(at) - 1) \o SubSeq(pre, Min(at) + 1, Len(pre))

\* C9, as stated: putString(s, k, NULL) and removeKey(s, k) have the same
\* effect on the file, and afterwards getString(s, k) returns the default
\* (one that fits) with length 0, for any initial file content.
C9_DeleteThenDefaultZeroLength ==
    C9Case =>
        /\ C9SameEffect
        /\ (rd.op = "getString" /\ ReadsWritten /\ Len(rd.defValue) < rd.bufferSize) =>
               (rd.buffer = rd.defValue /\ rd.ret = 0)

\* C9, amended: putString(s, k, NULL) and removeKey(s, k) have the same effect
\* on the file, the removal of the first line holding k under s; afterwards,
\* when the file held at most one such line, getString(s, k) returns the
\* default (one that fits; a longer one cut to the buffer) with length 0.
C9_DeleteByNull ==
    C9Case =>
        /\ C9SameEffect
        /\ (rd.op = "getString" /\ ReadsWritten
              /\ Cardinality(KeyLinesOf(Lines(wr.pre), wr.section, wr.key)) <= 1) =>
               /\ Len(rd.defValue) < rd.bufferSize => rd.buffer = rd.defValue
               /\ rd.buffer = SubSeq(rd.defValue, 1, Min({Len(rd.defValue), rd.bufferSize - 1}))
               /\ rd.ret = 0

\* the key is removed from its section, the read that follows gets the default
C9_Witness ==
    /\ C9Case
    /\ wr.op = "removeKey"
    /\ wr.pre = <<hA, k42>>
    /\ fs[Path] = <<hA>>
    /\ rd.op = "getString"
    /\ ReadsWritten
    /\ rd.defValue = <<"d", "d">>
    /\ rd.buffer = <<"d", "d">>
    /\ rd.ret = 0

----------------------------------------------------------------------------
(* C10 *)

\* a removeKey, possibly the repetition of the same removeKey, of a key the
\* file did not hold under the section before the first of them
C10Case ==
    /\ ~freed
    /\ wr.op = "removeKey"
    /\ wr.key # NULL
    /\ KeyLinesOf(Lines(wr.pre0), wr.section, wr.key) = {}

\* C10: removeKey on a key that is not in the file leaves the file as it
\* was, once or twice in a row, and the engine reports success unless a file
\* operation failed; on a missing file it cannot fail, and creates no file.
C10_IdempotentDelete ==
    C10Case =>
        /\ fs[Path] = wr.pre0
        /\ wr.pre = wr.pre0
        /\ wr.status = 1 \/ wr.failed
        /\ wr.pre0 = NoFile => wr.status = 1

\* the same removal twice on a file with other keys in the section
C10_Witness ==
    /\ C10Case
    /\ wr.twice
    /\ wr.status = 1
    /\ wr.section = NULL
    /\ wr.pre0 = <<kNoName, jPlain, hNoName, jEmpty, hB, comment>>
    /\ fs[Path] = <<kNoName, jPlain, hNoName, jEmpty, hB, comment>>

----------------------------------------------------------------------------
(* C11 *)

\* the member of the set S of line numbers that has i members below it
Nth(S, i) == CHOOSE x \in S : Cardinality({y \in S : y < x}) = i

\* a text cut to what a buffer of n bytes holds before its terminator
Cut(text, n) == SubSeq(text, 1, Min({Len(text), n - 1}))

\* what an enumeration call leaves for index idx over the lines S of the
\* current file, name(line) being the name a line carries: the name of the
\* line at that position cut to the buffer, with the number of characters
\* copied, or nothing and 0 past the last one
Enumerated(S, idx, name(_)) ==
    IF idx < Cardinality(S)
    THEN /\ rd.buffer = Cut(name(Lines(fs[Path])[Nth(S, idx)]), rd.bufferSize)
         /\ rd.ret = Len(rd.buffer)
         /\ rd.ret = 0 <=> (rd.bufferSize = 1 \/ name(Lines(fs[Path])[Nth(S, idx)]) = <<>>)
    ELSE /\ rd.buffer = <<>>
         /\ rd.ret = 0

\* the result 0 means that index idx is past the last of the lines S, which
\* is what lets the loop that runs until the result is 0 visit every item
ZeroOnlyPastEnd(S, idx) == rd.ret = 0 <=> idx >= Cardinality(S)

\* the section headers of the current file
EnumeratedHeaders ==
    LET lines == Lines(fs[Path]) IN {i \in 1..Len(lines) : IsHeader(lines[i])}

\* the key/value lines of the current file under the section last asked for
EnumeratedKeys ==
    LET lines == Lines(fs[Path])
    IN  {i \in 1..Len(lines) : IsKeyValue(lines[i]) /\ SectionAt(lines, i) = rd.section}

\* C11, as stated: for a file with n section headers, getSection(i) returns
\* the name of the i-th header, top to bottom, for 0 <= i < n and 0 / empty
\* for every i >= n; getKey(section, i) does the same over the keys under
\* the section; the loop that runs until the result is 0 visits every item
\* once, in file order, and ends: the result is 0 past the last item only.
C11_LoopVisitsEveryItem ==
    /\ (~freed /\ rd.op = "getSection") =>
           /\ Enumerated(EnumeratedHeaders, rd.idx, SectionName)
           /\ ZeroOnlyPastEnd(EnumeratedHeaders, rd.idx)
    /\ (~freed /\ rd.op = "getKey") =>
           /\ Enumerated(EnumeratedKeys, rd.idx, KeyName)
           /\ ZeroOnlyPastEnd(EnumeratedKeys, rd.idx)

\* C11, amended: for a file with n section headers, getSection(i) returns
\* the name of the i-th header, top to bottom, cut to capacity - 1
\* characters, with the number of characters copied, for 0 <= i < n and
\* 0 / empty for every i >= n; getKey(section, i) does the same over the keys
\* under the section (with a NULL section, the keys before any header). The
\* result for an item is 0 exactly when the capacity is 1 or the name is
\* empty; the loop that runs until the result is 0 ends at the first such
\* item, and visits every item, in file order, when there is none.
C11_PositionalEnumeration ==
    /\ (~freed /\ rd.op = "getSection") =>
           Enumerated(EnumeratedHeaders, rd.idx, SectionName)
    /\ (~freed /\ rd.op = "getKey") =>
           Enumerated(EnumeratedKeys, rd.idx, KeyName)

\* the first header of a file names nothing: the call for index 0 returns 0
\* although the file has a second header, BC
C11_Witness ==
    /\ ~freed
    /\ rd.op = "getSection"
    /\ fs[Path] = <<kNoName, jPlain, hNoName, jEmpty, hB, comment>>
    /\ rd.idx = 0
    /\ rd.bufferSize = 2
    /\ rd.buffer = <<>>
    /\ rd.ret = 0

----------------------------------------------------------------------------
(* C12 *)

\* C12: every read into a buffer of capacity n > 0 (getString, getSection,
\* getKey) leaves at most n - 1 characters in it, so that the text and its
\* terminator lie within the n bytes, and returns a length of at most n - 1;
\* a value or default of getString longer than that comes back as its first
\* n - 1 characters.
C12_BoundedOutput ==
    (~freed /\ rd.op \in {"getString", "getSection", "getKey"}) =>
        /\ rd.bufferSize > 0
        /\ Len(rd.buffer) + 1 <= rd.bufferSize
        /\ rd.ret <= rd.bufferSize - 1
        /\ rd.op = "getString" =>
               LET lines == Lines(fs[Path])
                   at == KeyLinesOf(lines, rd.section, rd.key)
                   full == IF at = {} THEN rd.defValue
                           ELSE cleanstring(RawValue(lines[Min(at)]))
               IN  Len(full) > rd.bufferSize - 1 =>
                       /\ rd.buffer = SubSeq(full, 1, rd.bufferSize - 1)
                       /\ rd.ret = (IF at = {} THEN 0 ELSE rd.bufferSize - 1)

\* the value 42 read into a buffer of two bytes
C12_Witness ==
    /\ ~freed
    /\ rd.op = "getString"
    /\ rd.bufferSize = 2
    /\ rd.section = <<"A">>
    /\ fs[Path] = <<hA, k42>>
    /\ rd.buffer = <<"4">>
    /\ rd.ret = 1

----------------------------------------------------------------------------
(* C13 *)

\* a getDouble follows a successful putDouble to the same (section, key)
C13Case ==
    /\ ~freed
    /\ rd.op = "getDouble"
    /\ wr.op = "putDouble"
    /\ wr.status = 1
    /\ ReadsWritten

\* C13, as stated: for every double d, putDouble(section, key, d) followed
\* by getDouble(section, key, default) returns exactly d.
C13_DoubleRoundTrip == C13Case => rd.ret = wr.arg

----------------------------------------------------------------------------
(* C14 *)

\* C14, as stated: a read called with a NULL key (getString, getLong, getInt,
\* getDouble), or a read into a buffer called with a NULL buffer or a
\* capacity <= 0 (getString, getSection, getKey), faults: no such call ever
\* returns a value or a default.
C14_ArgumentFaults ==
    /\ (~freed /\ rd.op \in {"getString", "getLong", "getInt", "getDouble"}) => rd.key # NULL
    /\ (~freed /\ rd.op \in {"getString", "getSection", "getKey"}) =>
           (rd.arg # NULL /\ rd.bufferSize > 0)

----------------------------------------------------------------------------
(* C15 *)

\* a put or a removeKey with a NULL key has succeeded
C15Case ==
    /\ ~freed
    /\ wr.op \in {"putString", "putLong", "removeKey"}
    /\ wr.key = NULL
    /\ wr.status = 1

\* C15: after a successful put or removeKey with a NULL key the file is the
\* file from before without the key/value lines under the given section:
\* every other line, the keys of the other sections among them, is kept in
\* its place; a getKey(section, 0) that follows reports no key.
C15_SectionErase ==
    C15Case =>
        LET pre == Lines(wr.pre)
            post == Lines(fs[Path])
            keep == {i \in 1..Len(pre) :
                        ~(IsKeyValue(pre[i]) /\ SectionAt(pre, i) = wr.section)}
        IN  /\ Len(post) = Cardinality(keep)
            /\ \A j \in 1..Len(post) : post[j] = pre[Nth(keep, j - 1)]
            /\ wr.pre = NoFile => fs[Path] = NoFile
            /\ (rd.op = "getKey" /\ rd.section = wr.section /\ rd.idx = 0) =>
                   (rd.ret = 0 /\ rd.buffer = <<>>)

\* section A, named by two headers, loses its three keys; the key of the
\* global part stays
C15_Witness ==
    /\ C15Case
    /\ wr.op = "removeKey"
    /\ wr.section = <<"A">>
    /\ wr.pre = <<kUpper, hA, k42, k7c, hA, k9>>
    /\ fs[Path] = <<kUpper, hA, hA>>
    /\ rd.op = "getKey"
    /\ rd.section = <<"A">>
    /\ rd.idx = 0
    /\ rd.ret = 0

----------------------------------------------------------------------------
(* C17 *)

\* a read has looked for a key of which the file holds several lines under
\* the section
C17Case ==
    /\ ~freed
    /\ rd.op \in {"getString", "getLong", "getInt", "getDouble"}
    /\ Cardinality(KeyLinesOf(Lines(fs[Path]), rd.section, rd.key)) >= 2

\* C17: when the file holds several lines of the same (section, key), under
\* one header or under repeated headers of the section, every read returns
\* the value of the first of them in file order: getString its text, the
\* numeric reads its number, or the default when its text is empty.
C17_FirstMatchWins ==
    C17Case =>
        LET lines == Lines(fs[Path])
            first == cleanstring(RawValue(lines[Min(KeyLinesOf(lines, rd.section, rd.key))]))
        IN  /\ rd.op = "getString" => rd.buffer = Cut(first, rd.bufferSize)
            /\ rd.op \in {"getLong", "getInt"} =>
                   /\ first = <<>> => rd.ret = rd.defValue
                   /\ \A n \in NumeralRange : first = FormatD(n) => rd.ret = n
            /\ rd.op = "getDouble" =>
                   /\ first = <<>> => rd.ret = rd.defValue
                   /\ \A n \in NumeralRange : first = FormatD(n) => rd.ret = Double(n)

\* 42, 7 and 9 stand under section A, the last under a second header: 42 is
\* read
C17_Witness ==
    /\ C17Case
    /\ rd.op = "getString"
    /\ rd.section = <<"A">>
    /\ fs[Path] = <<kUpper, hA, k42, k7c, hA, k9>>
    /\ rd.bufferSize = 8
    /\ rd.buffer = <<"4", "2">>

----------------------------------------------------------------------------
(* C18 *)

\* a put of a value has succeeded on a key the file did not hold under the
\* section
C18Case ==
    /\ ~freed
    /\ wr.op \in {"putString", "putLong", "putInt", "putDouble"}
    /\ wr.status = 1
    /\ wr.key # NULL
    /\ wr.value # NULL
    /\ KeyLinesOf(Lines(wr.pre), wr.section, wr.key) = {}

\* C18: a successful put of a key that the section does not hold yet adds
\* exactly one line when the section exists, at the end of its (first)
\* block, before the next header or at the end of the file (for the global
\* part: before the first header); when the section does not exist, its
\* header and the line of the key are added at the end of the file, and
\* getSection lists the old sections in their old order, then the new one.
C18_InsertionPosition ==
    C18Case =>
        LET pre == Lines(wr.pre)
            post == Lines(fs[Path])
            heads == {i \in 1..Len(pre) : IsHeader(pre[i])}
            named == HeadersOf(pre, wr.section)
        IN  IF wr.section = NULL \/ named # {}
            THEN LET start == IF wr.section = NULL THEN 0 ELSE Min(named)
                     later == {i \in heads : i > start}
                     p == IF later = {} THEN Len(pre) + 1 ELSE Min(later)
                 IN  /\ Len(post) = Len(pre) + 1
                     /\ SubSeq(post, 1, p - 1) = SubSeq(pre, 1, p - 1)
                     /\ SubSeq(post, p + 1, Len(post)) = SubSeq(pre, p, Len(pre))
                     /\ KeyLinesOf(post, wr.section, wr.key) = {p}
            ELSE /\ Len(post) = Len(pre) + 2
                 /\ SubSeq(post, 1, Len(pre)) = pre
                 /\ HeadersOf(post, wr.section) = {Len(pre) + 1}
                 /\ KeyLinesOf(post, wr.section, wr.key) = {Len(pre) + 2}
                 /\ rd.op = "getSection" =>
                        /\ rd.idx < Cardinality(heads) =>
                               rd.buffer = Cut(SectionName(pre[Nth(heads, rd.idx)]), rd.bufferSize)
                        /\ rd.idx = Cardinality(heads) => rd.buffer = Cut(wr.section, rd.bufferSize)
                        /\ rd.idx > Cardinality(heads) => rd.ret = 0

\* the key goes to the end of the block of section A, before the header of
\* the next section
C18_Witness ==
    /\ C18Case
    /\ wr.op = "putLong"
    /\ wr.section = <<"A">>
    /\ wr.pre = <<hA, jPlain, hB, k42, hA>>
    /\ fs[Path] = <<hA, jPlain, <<"k", "=", "7">>, hB, k42, hA>>

----------------------------------------------------------------------------
(* C19 *)

\* C19: for every file content, section, key and default, getInt returns
\* what getLong returns for the same arguments, and so does the int overload
\* of the C++ get (the numbers read lie within the range of int).
C19_IntAgreesWithLong ==
    /\ (~freed /\ rd.op \in {"getInt", "get"}) =>
           rd.ret = IniConfigFile_getLong(valid, fileName, rd.section, rd.key,
                                          rd.defValue, fs).ret
    /\ (~freed /\ rd.op = "getLong") =>
           rd.ret = IniConfigFile_getInt(valid, fileName, rd.section, rd.key,
                                         rd.defValue, fs).ret

\* the C++ overload reads the number a putInt has written
C19_Witness ==
    /\ ~freed
    /\ rd.op = "get"
    /\ wr.op = "putInt"
    /\ wr.status = 1
    /\ ReadsWritten
    /\ rd.ret = 0 - 1
    /\ IniConfigFile_getInt(valid, fileName, rd.section, rd.key, 7, fs).ret = 0 - 1

----------------------------------------------------------------------------
(* C20 *)

\* the three states of a handle
Uninitialized == valid = INICONFIGFILE_FRESH
Initialized == valid = INICONFIGFILE_VALID
Invalidated == valid = INICONFIGFILE_INVALID

\* C20, as stated: a handle (one that has not been released) becomes
\* Initialized only from Uninitialized, by a successful init, leaves
\* Initialized only by clear, and once Invalidated never becomes Initialized
\* again.
C20_NeverInitializedAgain ==
    [][~freed' =>
          /\ (Initialized' /\ ~Initialized) => Uninitialized /\ call' = "init" /\ rd'.ret
          /\ (Initialized /\ ~Initialized') => Invalidated' /\ call' = "clear"
          /\ Invalidated => ~Initialized']_vars

\* C20: as long as the handle has not been released, the validity mark and
\* the bound path change only in init and clear; an init that faults on its
\* arguments changes nothing.  A handle becomes Initialized only by a
\* successful init (also one on a handle that a clear or a failed init has
\* invalidated), which binds it to the name given; it leaves Initialized
\* only by clear or by a failed init, both of which leave it Invalidated
\* without a path.  A failed init never leaves the handle Initialized, and
\* an Initialized handle always owns a non-null path.  Only delete releases
\* a handle, and a released handle stays released.
C20_HandleTransitions ==
    /\ []((~freed /\ Initialized) => fileName # NULL /\ fileName \in InitNames)
    /\ [][/\ freed => freed'
          /\ (freed' /\ ~freed) => call' = "delete"
          /\ ~freed' =>
                /\ (valid' # valid \/ fileName' # fileName) =>
                       call' \in {"init", "clear"} /\ pc' = "idle"
                /\ (Initialized' /\ ~Initialized) =>
                       call' = "init" /\ rd'.ret /\ fileName' = rd'.arg
                /\ (Initialized /\ ~Initialized') =>
                       /\ Invalidated' /\ fileName' = NULL
                       /\ call' = "clear" \/ (call' = "init" /\ ~rd'.ret)
                /\ (call' = "init" /\ pc' = "fault") =>
                       valid' = valid /\ fileName' = fileName
                /\ (call' = "init" /\ pc' = "idle" /\ ~rd'.ret) => ~Initialized'
                /\ (call' = "init" /\ pc' = "idle" /\ rd'.ret) =>
                       Initialized' /\ fileName' = rd'.arg]_vars

\* a handle that was invalidated has been initialised again
C20_Witness ==
    /\ rd.op = "init"
    /\ rd.from = INICONFIGFILE_INVALID
    /\ rd.ret
    /\ Initialized
    /\ fileName = Path
    /\ wr = NoCall
    /\ ~freed

----------------------------------------------------------------------------
(* C16 *)

\* C16: with readers on separate handles bound to one path and no writer,
\* under every interleaving of their read passes each read call returns
\* what the same call returns when it runs alone on the file, and no step
\* of a read changes the content of a file or creates one.
C16_ConcurrentReaders ==
    /\ [](\A i \in DOMAIN readers :
              readers[i].pc = "done" =>
                  readers[i].ret = ReadResult(ReadCalls[readers[i].c], readers[i].valid,
                                              readers[i].fileName, fs))
    /\ [][fs' = fs]_vars

\* a getString has returned the stored text while the other reader was in
\* the middle of enumerating the keys of the same file
C16_Witness ==
    \E i, j \in DOMAIN readers :
        /\ i # j
        /\ readers[i].pc = "done"
        /\ readers[i].overlapped
        /\ ReadCalls[readers[i].c].op = "getString"
        /\ readers[i].ret.buffer = <<"4", "2">>
        /\ readers[j].pc = "open"
        /\ ReadCalls[readers[j].c].op = "getKey"
        /\ readers[j].pos > 0

====
